---- MODULE Spec2Model ----
(***************************************************************************)
(* Settings store, trust policy, derived request fields and view lookup   *)
(* of the express application (lib/application.js part of                  *)
(* src/lib/express.js, src/lib/utils.js, src/lib/request.js, the View      *)
(* class of src/unnamed/part_000).                                         *)
(*                                                                         *)
(* JavaScript values are records of one shape, [t, s, n, l]:               *)
(*   t  the typeof tag ("undefined", "boolean", "number", "string",        *)
(*      "array", "function", "null") or "absent" (no own property) /       *)
(*      "throw" (the call threw)                                           *)
(*   s  the name of a boolean or of a function                             *)
(*   n  the number                                                         *)
(*   l  the chunks of a string, or the elements of an array                *)
(* A string is the sequence of its chunks: every character the code looks  *)
(* for (",", " ", ":", ".", "[", "]") is a chunk of its own, and a run of  *)
(* other characters is one chunk.                                          *)
(***************************************************************************)
EXTENDS Integers, Sequences, FiniteSets, TLC

VARIABLES
    settings,           \* app -> key -> own property of app.settings (Absent: no own property)
    trustProxyDefault,  \* app -> the own "@@symbol:trust_proxy_default" property of app.settings
    protoOf,            \* app -> the app whose settings object is the prototype of app.settings
    userSet,            \* app -> keys its user has called set(k, v) with (history)
    inherited,          \* app -> a mount under a parent with a compiled trust function completed
                        \*        while the user had never set "trust proxy" (history)
    lastCall,           \* the call that produced this state and what it returned
    nops,               \* number of set/use calls made so far
    req,                \* the request being served: socket, headers, owning app
    out,                \* the derived field read last and the value the getter returned
    consulted,          \* the read made last called the freshness evaluator
    fsys,               \* the file system: path -> "none", "file" or "dir"
    view,               \* the View constructed last: name, root, ext, looked-up path, stat calls
    reads,              \* number of reads of derived fields made on the request so far
    router,             \* app -> app._router: NoRouter, or the options and parser it was built with
    cache,              \* app -> name -> own property of app.cache (Absent: no own property)
    engines,            \* app -> extension -> own property of app.engines
    rendered,           \* the render call made last and what it did
    built               \* name -> how often a render with caching on has run the View
                        \*         constructor to its end: "never", "once", "again" (history)

renderVars == <<cache, engines, rendered, built>>

vars == <<settings, trustProxyDefault, protoOf, userSet, inherited, lastCall, nops, req, out,
          consulted, fsys, view, reads, router, cache, engines, rendered, built>>

\* Bound on the number of reads of derived fields on one request.
MaxReads == 2

\* Bound on the number of set/use calls in one behaviour.
MaxOps == 3

-----------------------------------------------------------------------------
(* JavaScript values *)

Val(t, s, n, l) == [t |-> t, s |-> s, n |-> n, l |-> l]

Undefined == Val("undefined", "", 0, <<>>)
Null      == Val("null", "", 0, <<>>)
Absent    == Val("absent", "", 0, <<>>)
Threw     == Val("throw", "TypeError", 0, <<>>)
Bool(b)   == Val("boolean", IF b THEN "true" ELSE "false", 0, <<>>)
Num(k)    == Val("number", "", k, <<>>)
StrC(cs)  == Val("string", "", 0, cs)
Str(x)    == StrC(<<x>>)
Arr(es)   == Val("array", "", 0, es)
Fn(name)  == Val("function", name, 0, <<>>)

IsFunction(v) == v.t = "function"

\* JavaScript truthiness of the values used here.
Truthy(v) ==
    CASE v.t = "undefined" -> FALSE
      [] v.t = "null"      -> FALSE
      [] v.t = "boolean"   -> v.s = "true"
      [] v.t = "number"    -> v.n # 0
      [] v.t = "string"    -> v.l # <<>> /\ v.l # <<"">>
      [] OTHER             -> TRUE

-----------------------------------------------------------------------------
(* Setting compilers (src/lib/utils.js) *)

\* compileETag: a function is passed through, true and "weak" give the weak
\* generator, "strong" the strong one, false leaves fn unassigned, any other
\* value throws a TypeError.
compileETag(val) ==
    CASE IsFunction(val)      -> val
      [] val = Bool(TRUE)     -> Fn("wetag")
      [] val = Bool(FALSE)    -> Undefined
      [] val = Str("strong")  -> Fn("etag")
      [] val = Str("weak")    -> Fn("wetag")
      [] OTHER                -> Threw

\* compileQueryParser: same shape, with false giving the empty-object parser.
compileQueryParser(val) ==
    CASE IsFunction(val)       -> val
      [] val = Bool(TRUE)      -> Fn("querystring.parse")
      [] val = Bool(FALSE)     -> Fn("newObject")
      [] val = Str("extended") -> Fn("parseExtendedQueryString")
      [] val = Str("simple")   -> Fn("querystring.parse")
      [] OTHER                 -> Threw

\* The addresses of the model and the trust entries proxy-addr can parse.
Addresses == {"10.0.0.1", "10.0.0.2", "1.2.3.4", "9.9.9.9"}

IsIPNotation(e) == e \in Addresses \cup {"10.0.0.0/8", "loopback"}

\* True when address addr lies in the subnet that trust entry e denotes.
AddrMatches(addr, e) ==
    \/ e = addr /\ e \in Addresses
    \/ e = "10.0.0.0/8" /\ addr \in {"10.0.0.1", "10.0.0.2"}

\* str.split(/ *, */): the pieces between commas, each comma taking the
\* spaces around it; a piece keeps its chunks in order (joined, it is one
\* array element).
RECURSIVE SplitComma(_, _, _)
SplitComma(cs, cur, acc) ==
    IF cs = <<>> THEN Append(acc, cur)
    ELSE IF Head(cs) = ","
         THEN LET RECURSIVE Strip(_)
                  Strip(x) == IF x # <<>> /\ x[Len(x)] = " "
                              THEN Strip(SubSeq(x, 1, Len(x) - 1)) ELSE x
                  RECURSIVE Skip(_)
                  Skip(x) == IF x # <<>> /\ Head(x) = " " THEN Skip(Tail(x)) ELSE x
              IN SplitComma(Skip(Tail(cs)), <<>>, Append(acc, Strip(cur)))
         ELSE SplitComma(Tail(cs), Append(cur, Head(cs)), acc)

\* An array element made of the chunks of one piece: no chunk is the empty
\* string, a single chunk is that string, several chunks are a string that
\* is no address and no trust entry.
Joined(piece) ==
    IF piece = <<>> THEN "" ELSE IF Len(piece) = 1 THEN piece[1] ELSE "<joined>"

\* Faulty variant of SplitTrustString: the string is cut at the commas
\* alone and the spaces around a comma stay in the pieces.
SplitTrustStringBareComma(val) ==
    LET RECURSIVE Cut(_, _, _)
        Cut(cs, cur, acc) ==
            IF cs = <<>> THEN Append(acc, cur)
            ELSE IF Head(cs) = "," THEN Cut(Tail(cs), <<>>, Append(acc, cur))
            ELSE Cut(Tail(cs), Append(cur, Head(cs)), acc)
        pieces == Cut(val.l, <<>>, <<>>)
    IN  [i \in 1..Len(pieces) |-> Joined(pieces[i])]

\* val.split(/ *, */) as an array of strings.
SplitTrustString(val) ==
    LET pieces == SplitComma(val.l, <<>>, <<>>)
    IN  [i \in 1..Len(pieces) |-> Joined(pieces[i])]

\* proxyaddr.compile(list): throws for an entry that is no IP notation,
\* otherwise the closure that matches the remote address against the list.
proxyaddrCompile(es) ==
    IF \E i \in 1..Len(es) : ~IsIPNotation(es[i])
    THEN Threw
    ELSE Val("function", "trustAddrs", 0, es)

\* Faulty variant of compileTrust: every value that is not a function, a
\* number or a string is taken for true.
compileTrustAnyIsTrue(val) ==
    CASE IsFunction(val)    -> val
      [] val.t = "number"   -> Val("function", "trustHops", val.n, <<>>)
      [] val.t = "string"   -> proxyaddrCompile(SplitTrustString(val))
      [] OTHER              -> Fn("trustAll")

\* compileTrust: function passed through; true gives the constant-true
\* closure; a number n the closure (a, i) => i < n; a string is split into a
\* list; a list (or [] for a falsy value) goes to proxyaddr.compile.
compileTrust(val) ==
    CASE IsFunction(val)    -> val
      [] val = Bool(TRUE)   -> Fn("trustAll")
      [] val.t = "number"   -> Val("function", "trustHops", val.n, <<>>)
      [] val.t = "string"   -> proxyaddrCompile(SplitTrustString(val))
      [] val.t = "array"    -> proxyaddrCompile(val.l)
      [] ~Truthy(val)       -> proxyaddrCompile(<<>>)
      [] OTHER              -> Threw

\* A trust function written by the user: it trusts the peer 10.0.0.1 at hop 0 only.
UserTrust == Fn("userTrust")

\* Faulty variant of hopsTrust: the comparison includes the bound.
hopsTrustInclusive(n, i) == i <= n

\* The closure compileTrust returns for a number n: (a, i) => i < n.
hopsTrust(n, i) == i < n

\* trust(addr, i): the call of a compiled trust closure.

TrustApply(fn, addr, i) ==
    CASE fn.s = "trustAll"   -> TRUE
      [] fn.s = "trustHops"  -> hopsTrust(fn.n, i)
      [] fn.s = "trustAddrs" -> \E k \in 1..Len(fn.l) : AddrMatches(addr, fn.l[k])
      [] fn.s = "userTrust"  -> addr = "10.0.0.1" /\ i = 0
      [] OTHER               -> FALSE

-----------------------------------------------------------------------------
(* Settings store (application part of src/lib/express.js) *)

Apps == {"app", "admin", "blog"}
NoApp == "none"

PrimaryKeys == {"etag", "query parser", "trust proxy"}
CompiledKey(k) ==
    CASE k = "etag"         -> "etag fn"
      [] k = "query parser" -> "query parser fn"
      [] k = "trust proxy"  -> "trust proxy fn"

Keys == PrimaryKeys \cup {"etag fn", "query parser fn", "trust proxy fn",
                          "subdomain offset", "views", "view engine",
                          "view cache", "title", "constructor",
                          "case sensitive routing", "strict routing"}

Compile(k, val) ==
    CASE k = "etag"         -> compileETag(val)
      [] k = "query parser" -> compileQueryParser(val)
      [] k = "trust proxy"  -> compileTrust(val)

\* The members every plain object {} inherits from Object.prototype.
ObjectPrototype(k) ==
    IF k = "constructor" THEN Fn("Object") ELSE Undefined

\* Faulty variant of Lookup: the prototype chain is consulted before the own property.
RECURSIVE LookupParentFirst(_, _, _, _)
LookupParentFirst(st, pr, a, k) ==
    IF a = NoApp THEN ObjectPrototype(k)
    ELSE LET up == LookupParentFirst(st, pr, pr[a], k)
         IN  IF up # Undefined THEN up
             ELSE IF st[a][k] # Absent THEN st[a][k] ELSE Undefined

\* this.settings[k]: own property first, then the prototype chain.
RECURSIVE Lookup(_, _, _, _)
Lookup(st, pr, a, k) ==
    IF a = NoApp THEN ObjectPrototype(k)
    ELSE IF st[a][k] # Absent THEN st[a][k]
    ELSE Lookup(st, pr, pr[a], k)

Get(a, k) == Lookup(settings, protoOf, a, k)

\* app.init() and app.defaultConfiguration() with NODE_ENV unset.
DefaultSettings ==
    [k \in Keys |->
        CASE k = "etag"             -> Str("weak")
          [] k = "etag fn"          -> compileETag(Str("weak"))
          [] k = "query parser"     -> Str("extended")
          [] k = "query parser fn"  -> compileQueryParser(Str("extended"))
          [] k = "subdomain offset" -> Num(2)
          [] k = "trust proxy"      -> Bool(FALSE)
          [] k = "trust proxy fn"   -> compileTrust(Bool(FALSE))
          [] k = "views"            -> Str("/cwd/views")
          [] OTHER                  -> Absent]

\* The apps that app a reaches through the prototype chain of its settings.
RECURSIVE Ancestors(_, _)
Ancestors(pr, a) ==
    IF pr[a] = NoApp THEN {} ELSE {pr[a]} \cup Ancestors(pr, pr[a])

Call(op, a, arg, val, ret) == [op |-> op, app |-> a, arg |-> arg, val |-> val, ret |-> ret]

\* The store after app.set(k, val): the value is written first, then a
\* primary key compiles and writes its compiled key; a compiler that throws
\* leaves the function after the first write.
SetStore(st, k, val) ==
    IF k \in PrimaryKeys /\ Compile(k, val) # Threw
    THEN [st EXCEPT ![k] = val, ![CompiledKey(k)] = Compile(k, val)]
    ELSE [st EXCEPT ![k] = val]

SetThrows(k, val) == k \in PrimaryKeys /\ Compile(k, val) = Threw

\* Faulty variant of SetMarker: a value equal to the default false leaves the marker alone.
SetMarkerSkipsDefault(old, k, val) ==
    IF k = "trust proxy" /\ ~SetThrows(k, val) /\ val # Bool(FALSE) THEN FALSE ELSE old

\* The marker after app.set(k, val): "trust proxy" redefines it as false
\* once the compiled function is stored.
SetMarker(old, k, val) ==
    IF k = "trust proxy" /\ ~SetThrows(k, val) THEN FALSE ELSE old

\* app.set(setting, val) with two arguments.
Set(a, k, val) ==
    /\ settings' = [settings EXCEPT ![a] = SetStore(settings[a], k, val)]
    /\ trustProxyDefault' = [trustProxyDefault EXCEPT ![a] = SetMarker(@, k, val)]
    /\ userSet' = [userSet EXCEPT ![a] = @ \cup {k}]
    /\ lastCall' = Call("set", a, k, val, IF SetThrows(k, val) THEN "TypeError" ELSE a)
    /\ UNCHANGED <<protoOf, inherited, req, out, consulted, fsys, view, reads, router, renderVars>>

\* onmount, first part: a child still at the default trust setting drops its
\* own "trust proxy" keys when the parent has a compiled trust function.
InheritsTrust(marker, parentFn) == marker = TRUE /\ IsFunction(parentFn)

\* Faulty variant of OnMountStore: only "trust proxy" is deleted, the compiled key stays.
OnMountStoreKeepsFn(st, marker, parentFn) ==
    IF InheritsTrust(marker, parentFn)
    THEN [st EXCEPT !["trust proxy"] = Absent]
    ELSE st

OnMountStore(st, marker, parentFn) ==
    IF InheritsTrust(marker, parentFn)
    THEN [st EXCEPT !["trust proxy"] = Absent, !["trust proxy fn"] = Absent]
    ELSE st

\* app.enabled(setting): Boolean(this.set(setting)).
enabled(a, k) == Truthy(Get(a, k))

\* An application without a router (this._router undefined). A router is
\* the options and the query parser it was built with; made counts the
\* routers the application has built.
NoRouter == [caseSensitive |-> FALSE, strict |-> FALSE, queryParser |-> Absent, made |-> 0]

\* Faulty variant of lazyrouter: a new router is built on every call.
lazyrouterRebuilds(a) ==
    [caseSensitive |-> enabled(a, "case sensitive routing"),
     strict        |-> enabled(a, "strict routing"),
     queryParser   |-> Get(a, "query parser fn"),
     made          |-> router[a].made + 1]

\* app._router after app.lazyrouter(): the router the app has, or a new one
\* built with the routing options and the query parser current now.
lazyrouter(a) ==
    IF router[a] # NoRouter THEN router[a]
    ELSE [caseSensitive |-> enabled(a, "case sensitive routing"),
          strict        |-> enabled(a, "strict routing"),
          queryParser   |-> Get(a, "query parser fn"),
          made          |-> 1]

\* app.route(path), app.param(name, fn), app.all(path, ...) and
\* app.VERB(path, ...): each calls lazyrouter first; what it then adds to
\* the router is not part of the model.
RoutingOps == {"route", "param", "all", "verb"}

Route(a, op) ==
    /\ router' = [router EXCEPT ![a] = lazyrouter(a)]
    /\ lastCall' = Call(op, a, Undefined, Undefined, a)
    /\ UNCHANGED <<settings, trustProxyDefault, protoOf, userSet, inherited, nops, req, out,
                   consulted, fsys, view, reads, renderVars>>

\* setPrototypeOf throws a TypeError when the new chain would be cyclic.
CyclicMount(p, c) == p = c \/ c \in Ancestors(protoOf, p)

\* parent.use(child): the parent's router is created if it has none, then
\* the child's mount event runs onmount; the four
\* setPrototypeOf calls share one chain shape, so the first one throws or
\* none does.
Mount(p, c) ==
    /\ settings' = [settings EXCEPT
                      ![c] = OnMountStore(@, trustProxyDefault[c], Get(p, "trust proxy fn"))]
    /\ protoOf' = IF CyclicMount(p, c) THEN protoOf ELSE [protoOf EXCEPT ![c] = p]
    /\ inherited' = [inherited EXCEPT ![c] =
                        @ \/ (/\ ~CyclicMount(p, c)
                              /\ "trust proxy" \notin userSet[c]
                              /\ InheritsTrust(trustProxyDefault[c], Get(p, "trust proxy fn")))]
    /\ lastCall' = Call("use", p, c, Undefined, IF CyclicMount(p, c) THEN "TypeError" ELSE p)
    /\ router' = [router EXCEPT ![p] = lazyrouter(p)]
    /\ UNCHANGED <<trustProxyDefault, userSet, req, out, consulted, fsys, view, reads, renderVars>>

\* The (key, value) pairs the model calls set with.
SetInputs ==
    { <<"etag", Str("strong")>>, <<"etag", Bool(FALSE)>>, <<"etag", Str("bogus")>>,
      <<"query parser", Str("simple")>>, <<"query parser", Str("bogus")>>,
      <<"trust proxy", Bool(TRUE)>>, <<"trust proxy", Bool(FALSE)>>,
      <<"trust proxy", Num(1)>>, <<"trust proxy", Str("bogus")>>,
      <<"subdomain offset", Num(3)>>, <<"view engine", Str("ejs")>> }

-----------------------------------------------------------------------------
(* Derived request fields (src/lib/request.js) *)

\* Largest hop count the model sets as "trust proxy".
MaxHopCount == 2

Min(S) == CHOOSE x \in S : \A y \in S : x <= y

\* str.indexOf(ch, from): 0-based position of the first chunk ch at or after
\* from, or -1.
IndexOf(cs, ch, from) ==
    LET hits == {i \in 1..Len(cs) : i > from /\ cs[i] = ch}
    IN  IF hits = {} THEN -1 ELSE Min(hits) - 1

\* str.substring(0, end)
Substring0(cs, end) == SubSeq(cs, 1, end)

RECURSIVE TrimLeft(_)
TrimLeft(cs) == IF cs # <<>> /\ Head(cs) = " " THEN TrimLeft(Tail(cs)) ELSE cs

RECURSIVE TrimRight(_)
TrimRight(cs) ==
    IF cs # <<>> /\ cs[Len(cs)] = " " THEN TrimRight(SubSeq(cs, 1, Len(cs) - 1)) ELSE cs

Trim(cs) == TrimLeft(TrimRight(cs))

RECURSIVE Reverse(_)
Reverse(q) == IF q = <<>> THEN <<>> ELSE Append(Reverse(Tail(q)), Head(q))

\* The X-Forwarded-For addresses, nearest proxy first: the header is cut at
\* commas, each piece loses the spaces around it, empty pieces are skipped.
NonEmpty(pieces) ==
    LET RECURSIVE Keep(_)
        Keep(ps) == IF ps = <<>> THEN <<>>
                    ELSE IF Trim(Head(ps)) = <<>> THEN Keep(Tail(ps))
                    ELSE <<Joined(Trim(Head(ps)))>> \o Keep(Tail(ps))
    IN Keep(pieces)

forwarded(r) ==
    LET header == IF Truthy(r.xff) THEN r.xff.l ELSE <<>>
    IN  <<r.peer>> \o Reverse(NonEmpty(SplitComma(header, <<>>, <<>>)))

\* proxyaddr.all(req, trust): the socket address followed by the forwarded
\* addresses, cut after the first address the trust function rejects at its
\* index; the last address is never tested.
RECURSIVE alladdrsFrom(_, _, _)
alladdrsFrom(addrs, trust, i) ==
    IF i >= Len(addrs) THEN addrs
    ELSE IF TrustApply(trust, addrs[i], i - 1)
         THEN alladdrsFrom(addrs, trust, i + 1)
         ELSE SubSeq(addrs, 1, i)

alladdrs(r, trust) == alladdrsFrom(forwarded(r), trust, 1)

\* Faulty variant of protocol: X-Forwarded-Proto is read without asking the trust function.
protocolTrustsHeader(r) ==
    LET proto  == IF r.encrypted THEN Str("https") ELSE Str("http")
        header == IF Truthy(r.xfproto) THEN r.xfproto ELSE proto
        index  == IndexOf(header.l, ",", 0)
    IN  IF index # -1
        THEN StrC(Trim(Substring0(header.l, index)))
        ELSE StrC(Trim(header.l))

\* Faulty variant of protocol: the header value is cut at the comma but not trimmed.
protocolUntrimmed(r) ==
    LET proto == IF r.encrypted THEN Str("https") ELSE Str("http")
        trust == Get(r.app, "trust proxy fn")
    IN  IF ~IsFunction(trust) THEN Threw
        ELSE IF ~TrustApply(trust, r.peer, 0) THEN proto
        ELSE LET header == IF Truthy(r.xfproto) THEN r.xfproto ELSE proto
                 index  == IndexOf(header.l, ",", 0)
             IN  IF index # -1
                 THEN StrC(Substring0(header.l, index))
                 ELSE header

\* req.protocol
protocol(r) ==
    LET proto == IF r.encrypted THEN Str("https") ELSE Str("http")
        trust == Get(r.app, "trust proxy fn")
    IN  IF ~IsFunction(trust) THEN Threw
        ELSE IF ~TrustApply(trust, r.peer, 0) THEN proto
        ELSE LET header == IF Truthy(r.xfproto) THEN r.xfproto ELSE proto
                 index  == IndexOf(header.l, ",", 0)
             IN  IF index # -1
                 THEN StrC(Trim(Substring0(header.l, index)))
                 ELSE StrC(Trim(header.l))

\* req.secure
secure(r) ==
    IF protocol(r) = Threw THEN Threw ELSE Bool(protocol(r) = Str("https"))

\* Faulty variant of ip: the leftmost forwarded address is taken without the trust walk.
ipLeftmostForwarded(r) ==
    LET addrs == forwarded(r) IN Str(addrs[Len(addrs)])

\* req.ip
ip(r) ==
    LET trust == Get(r.app, "trust proxy fn")
    IN  IF ~IsFunction(trust) THEN Threw
        ELSE LET addrs == alladdrs(r, trust) IN Str(addrs[Len(addrs)])

\* Faulty variant of ReversePop: the last element is removed before the reversal.
PopReverse(addrs) == Reverse(SubSeq(addrs, 1, Len(addrs) - 1))

\* addrs.reverse().pop(): reversed, then without its last element.
ReversePop(addrs) ==
    LET rev == Reverse(addrs) IN SubSeq(rev, 1, Len(rev) - 1)

\* req.ips
ips(r) ==
    LET trust == Get(r.app, "trust proxy fn")
    IN  IF ~IsFunction(trust) THEN Threw
        ELSE Arr(ReversePop(alladdrs(r, trust)))

\* Faulty variant of ChosenHost: X-Forwarded-Host is used without asking the trust function.
ChosenHostTrustsHeader(r) ==
    LET host == r.xfhost
    IN  IF ~Truthy(host) THEN r.host
        ELSE IF IndexOf(host.l, ",", 0) # -1
             THEN StrC(TrimRight(Substring0(host.l, IndexOf(host.l, ",", 0))))
             ELSE host

\* The host string req.hostname starts from.
ChosenHost(r) ==
    LET trust == Get(r.app, "trust proxy fn")
        host  == r.xfhost
    IN  IF ~Truthy(host) \/ ~TrustApply(trust, r.peer, 0) THEN r.host
        ELSE IF IndexOf(host.l, ",", 0) # -1
             THEN StrC(TrimRight(Substring0(host.l, IndexOf(host.l, ",", 0))))
             ELSE host

\* Faulty variant of StripPort: the separator is searched from the start of
\* the string, also when the host begins with a bracketed literal.
StripPortNoBracket(cs) ==
    LET index == IndexOf(cs, ":", 0)
    IN  IF index # -1 THEN Substring0(cs, index) ELSE cs

\* The part of a host string before its port.
StripPort(cs) ==
    LET offset == IF cs[1] = "[" THEN IndexOf(cs, "]", 0) + 1 ELSE 0
        index  == IndexOf(cs, ":", offset)
    IN  IF index # -1 THEN Substring0(cs, index) ELSE cs

\* req.hostname
hostname(r) ==
    LET trust == Get(r.app, "trust proxy fn")
    IN  IF Truthy(r.xfhost) /\ ~IsFunction(trust) THEN Threw
        ELSE LET host == ChosenHost(r)
             IN  IF ~Truthy(host) THEN Undefined ELSE StrC(StripPort(host.l))

\* net.isIP(str): 4 for a dotted IPv4 address, 6 for an IPv6 address (hex
\* groups and colons, without brackets, the last group possibly a dotted
\* IPv4 address), 0 for anything else.
Octets == {"1", "2", "3", "4"}
HexGroups == Octets \cup {"ffff"}

IsIPv4(cs) ==
    /\ Len(cs) = 7
    /\ \A i \in 1..7 : IF i % 2 = 1 THEN cs[i] \in Octets ELSE cs[i] = "."

IsIPv6(cs) ==
    LET colons == {i \in 1..Len(cs) : cs[i] = ":"}
    IN  /\ Cardinality(colons) >= 2
        /\ LET last == CHOOSE i \in colons : \A j \in colons : j <= i
               tail == SubSeq(cs, last + 1, Len(cs))
           IN  /\ \A i \in 1..last : cs[i] \in HexGroups \cup {":"}
               /\ tail = <<>> \/ (Len(tail) = 1 /\ tail[1] \in HexGroups) \/ IsIPv4(tail)

isIP(cs) == IF IsIPv4(cs) THEN 4 ELSE IF IsIPv6(cs) THEN 6 ELSE 0

\* str.split('.'): the pieces between the dots, each one array element.
RECURSIVE SplitDot(_, _, _)
SplitDot(cs, cur, acc) ==
    IF cs = <<>> THEN Append(acc, Joined(cur))
    ELSE IF Head(cs) = "." THEN SplitDot(Tail(cs), <<>>, Append(acc, Joined(cur)))
    ELSE SplitDot(Tail(cs), Append(cur, Head(cs)), acc)

\* arr.slice(offset) for a number offset >= 0; slice(undefined) is the whole array.
Slice(arr, offset) ==
    IF offset.t = "number" THEN SubSeq(arr, offset.n + 1, Len(arr)) ELSE arr

\* Faulty variant of subdomains: the labels are not reversed before the slice.
subdomainsUnreversed(r) ==
    LET hn == hostname(r)
    IN  IF hn = Threw THEN Threw
        ELSE IF ~Truthy(hn) THEN Arr(<<>>)
        ELSE LET offset == Get(r.app, "subdomain offset")
                 parts  == IF isIP(hn.l) = 0
                           THEN SplitDot(hn.l, <<>>, <<>>)
                           ELSE <<Joined(hn.l)>>
             IN  Arr(Slice(parts, offset))

\* req.subdomains
subdomains(r) ==
    LET hn == hostname(r)
    IN  IF hn = Threw THEN Threw
        ELSE IF ~Truthy(hn) THEN Arr(<<>>)
        ELSE LET offset == Get(r.app, "subdomain offset")
                 parts  == IF isIP(hn.l) = 0
                           THEN Reverse(SplitDot(hn.l, <<>>, <<>>))
                           ELSE <<Joined(hn.l)>>
             IN  Arr(Slice(parts, offset))

\* The headers the freshness evaluator reads: If-None-Match,
\* If-Modified-Since and Cache-Control of the request, ETag and
\* Last-Modified of the response (dates as numbers).
Validators(noneMatch, modifiedSince, cacheControl, etag, lastModified) ==
    [noneMatch |-> noneMatch, modifiedSince |-> modifiedSince,
     cacheControl |-> cacheControl, etag |-> etag, lastModified |-> lastModified]

NoValidators == Validators(Undefined, Undefined, Undefined, Undefined, Undefined)

\* fresh(reqHeaders, resHeaders) of the fresh package: false without a
\* conditional header or with Cache-Control: no-cache; false when
\* If-None-Match is not "*" and the ETag is missing or different; false when
\* Last-Modified is missing or later than If-Modified-Since; true otherwise.
freshEvaluator(c) ==
    IF ~Truthy(c.modifiedSince) /\ ~Truthy(c.noneMatch) THEN FALSE
    ELSE IF c.cacheControl = Str("no-cache") THEN FALSE
    ELSE IF Truthy(c.noneMatch) /\ c.noneMatch # Str("*")
            /\ (~Truthy(c.etag) \/ c.etag # c.noneMatch) THEN FALSE
    ELSE IF Truthy(c.modifiedSince)
            /\ (~Truthy(c.lastModified) \/ ~(c.lastModified.n <= c.modifiedSince.n)) THEN FALSE
    ELSE TRUE

\* The read of req.fresh reaches the call of the evaluator.
FreshConsults(r) ==
    /\ ~("GET" # r.method /\ "HEAD" # r.method)
    /\ (r.status >= 200 /\ r.status < 300) \/ 304 = r.status

\* Faulty variant of fresh: the method is not looked at.
freshAnyMethod(r) ==
    IF (r.status >= 200 /\ r.status < 300) \/ 304 = r.status
    THEN Bool(freshEvaluator(r.cond))
    ELSE Bool(FALSE)

\* req.fresh
fresh(r) ==
    IF "GET" # r.method /\ "HEAD" # r.method THEN Bool(FALSE)
    ELSE IF (r.status >= 200 /\ r.status < 300) \/ 304 = r.status
         THEN Bool(freshEvaluator(r.cond))
         ELSE Bool(FALSE)

\* req.stale
stale(r) == Bool(~Truthy(fresh(r)))

Fields == {"protocol", "secure", "ip", "ips", "hostname"}
FreshFields == {"fresh", "stale"}
HostFields == {"hostname", "subdomains"}

\* Faulty variant of Getter: the value read last for the field is kept and
\* returned again.
GetterMemo(f, r) ==
    IF out.field = f THEN out.val
    ELSE CASE f = "protocol" -> protocol(r)
           [] f = "secure"   -> secure(r)
           [] f = "ip"       -> ip(r)
           [] f = "ips"      -> ips(r)
           [] f = "hostname" -> hostname(r)
           [] f = "subdomains" -> subdomains(r)
           [] f = "fresh" -> fresh(r)
           [] f = "stale" -> stale(r)

\* The getter defineGetter installed for field f, called on request r.
Getter(f, r) ==
    CASE f = "protocol" -> protocol(r)
      [] f = "secure"   -> secure(r)
      [] f = "ip"       -> ip(r)
      [] f = "ips"      -> ips(r)
      [] f = "hostname" -> hostname(r)
      [] f = "subdomains" -> subdomains(r)
      [] f = "fresh" -> fresh(r)
      [] f = "stale" -> stale(r)

\* Requests: socket peer, transport flag and the headers the getters read.
Request(a, peer, enc, xfproto, xfhost, host, xff) ==
    [app |-> a, peer |-> peer, encrypted |-> enc, xfproto |-> xfproto,
     xfhost |-> xfhost, host |-> host, xff |-> xff,
     method |-> "GET", status |-> 200, cond |-> NoValidators]

NoReq == Request(NoApp, "", FALSE, Undefined, Undefined, Undefined, Undefined)
NoOut == [field |-> "", val |-> Undefined]

Peers == {"10.0.0.1", "1.2.3.4"}

ProtoHeaders ==
    { Undefined, Str("https"), StrC(<<"https", ",", " ", "http">>),
      StrC(<<" ", "http", " ">>), Str("ftp") }

ForwardedHostHeaders ==
    { Undefined, StrC(<<"proxy", ".", "example", ".", "com">>),
      StrC(<<"a", ".", "example", ".", "com", ":", "8080", " ", ",", " ", "evil", ".", "com">>) }

HostHeaders ==
    { Undefined, StrC(<<"example", ".", "com", ":", "8080">>),
      StrC(<<"[", ":", ":", "1", "]", ":", "8080">>),
      StrC(<<"tobi", ".", "ferrets", ".", "example", ".", "com">>),
      StrC(<<"[", ":", ":", "1", "]">>),
      StrC(<<"1", ".", "2", ".", "3", ".", "4", ":", "3000">>),
      StrC(<<"[", ":", ":", "ffff", ":", "1", ".", "2", ".", "3", ".", "4", "]", ":", "8080">>) }

ForwardedForHeaders ==
    { Undefined, Str("9.9.9.9"),
      StrC(<<"9.9.9.9", ",", " ", "10.0.0.2">>),
      StrC(<<"1.2.3.4", ",", "bad", ",", " ", "10.0.0.1">>),
      StrC(<<"9.9.9.9", ",", "1.2.3.4", ",", " ", "10.0.0.2">>) }

\* The requests whose host headers vary.
HostRequests ==
    { Request("app", p, FALSE, Undefined, x, h, Undefined) :
        p \in Peers, x \in ForwardedHostHeaders, h \in HostHeaders }

Requests ==
    { Request("app", p, e, h, Undefined, Undefined, Undefined) :
        p \in Peers, e \in BOOLEAN, h \in ProtoHeaders }
    \cup HostRequests
    \cup
    { Request("app", p, FALSE, Undefined, Undefined, Undefined, f) :
        p \in Peers, f \in ForwardedForHeaders }

Methods == {"GET", "HEAD", "POST"}
Statuses == {199, 200, 204, 299, 300, 304, 404}

ValidatorCases ==
    { NoValidators,
      Validators(Str("v1"), Undefined, Undefined, Str("v1"), Undefined),
      Validators(Str("v1"), Undefined, Undefined, Str("v2"), Undefined),
      Validators(Str("v1"), Undefined, Str("no-cache"), Str("v1"), Undefined),
      Validators(Str("*"), Undefined, Undefined, Undefined, Undefined),
      Validators(Undefined, Num(2), Undefined, Undefined, Num(1)),
      Validators(Undefined, Num(1), Undefined, Undefined, Num(2)) }

\* The requests whose method, response status and validators vary.
FreshRequests ==
    { [Request("app", "1.2.3.4", FALSE, Undefined, Undefined, Undefined, Undefined)
         EXCEPT !.method = m, !.status = st, !.cond = c] :
        m \in Methods, st \in Statuses, c \in ValidatorCases }

\* A request reaches the application.
Receive(r) ==
    /\ req = NoReq
    /\ req' = r
    /\ reads' = 0
    /\ UNCHANGED <<settings, trustProxyDefault, protoOf, userSet, inherited, lastCall, nops, out,
                   consulted, fsys, view, router, renderVars>>

\* A read of the derived property f of the request.
Read(f) ==
    /\ req # NoReq
    /\ reads < MaxReads
    /\ reads' = reads + 1
    /\ out' = [field |-> f, val |-> Getter(f, req)]
    /\ consulted' = (f \in {"fresh", "stale"} /\ FreshConsults(req))
    /\ UNCHANGED <<settings, trustProxyDefault, protoOf, userSet, inherited, lastCall, nops, req,
                   fsys, view, router, renderVars>>

-----------------------------------------------------------------------------
(* View lookup (src/unnamed/part_000, the View class) *)

\* A path is the sequence of its segments; a segment is <<stem, ext>>, so
\* that "user.ejs" is <<"user", ".ejs">> and "views" is <<"views", "">>.
NoPath == <<>>

ViewRoots == {"/cwd/views", "/shared/views", "/theme/views"}
ViewExt == ".ejs"
ViewFile == <<"user", ViewExt>>

\* path.resolve(root, name) for a relative name, path.dirname, path.basename
\* and path.join.
pathResolve(root, name) == <<<<root, "">>>> \o name
dirname(loc) == SubSeq(loc, 1, Len(loc) - 1)
basename(loc) == loc[Len(loc)]
join(dir, file) == Append(dir, file)

\* path.basename(file, ext): the file name without the extension ext.
basenameWithout(file, ext) ==
    IF file[2] = ext /\ file[1] # "" THEN <<file[1], "">> ELSE file

\* The paths the file system of the model holds an entry for.
FsPaths ==
    UNION { { join(<<<<r, "">>>>, ViewFile),
              join(join(<<<<r, "">>>>, basenameWithout(ViewFile, ViewExt)), <<"index", ViewExt>>) } :
            r \in ViewRoots }

Kinds == {"none", "file", "dir"}

\* tryStat(path): the stat of the entry, or undefined ("none") when
\* fs.statSync throws; stat.isFile().
tryStat(path) == IF path \in DOMAIN fsys THEN fsys[path] ELSE "none"
isFile(stat) == stat = "file"

\* Faulty variant of resolve: any existing entry counts, also a directory.
resolveAnyEntry(dir, file, ext) ==
    LET direct == join(dir, file)
        index  == join(join(dir, basenameWithout(file, ext)), <<"index", ext>>)
    IN  IF tryStat(direct) # "none" THEN direct
        ELSE IF tryStat(index) # "none" THEN index
        ELSE NoPath

\* View.prototype.resolve(dir, file) with this.ext = ext.
resolve(dir, file, ext) ==
    LET direct == join(dir, file)
        index  == join(join(dir, basenameWithout(file, ext)), <<"index", ext>>)
    IN  IF isFile(tryStat(direct)) THEN direct
        ELSE IF isFile(tryStat(index)) THEN index
        ELSE NoPath

\* The paths View.prototype.resolve(dir, file) passes to tryStat, in order.
resolveStats(dir, file, ext) ==
    LET direct == join(dir, file)
        index  == join(join(dir, basenameWithout(file, ext)), <<"index", ext>>)
    IN  IF isFile(tryStat(direct)) THEN <<direct>> ELSE <<direct, index>>

\* [].concat(this.root): the roots as a list, whether root is one string or a list.
RootList(root) == IF root.t = "array" THEN root.l ELSE <<Joined(root.l)>>

\* Faulty variant of lookupFrom: the loop runs through every root, so the
\* last root with a match wins.
RECURSIVE lookupEveryRoot(_, _, _, _, _, _)
lookupEveryRoot(roots, name, ext, i, path, stats) ==
    IF ~(i < Len(roots)) THEN [path |-> path, stats |-> stats]
    ELSE LET loc   == pathResolve(roots[i + 1], name)
             dir   == dirname(loc)
             file  == basename(loc)
             found == resolve(dir, file, ext)
         IN  lookupEveryRoot(roots, name, ext, i + 1,
                             IF found # NoPath THEN found ELSE path,
                             stats \o resolveStats(dir, file, ext))

\* The loop of View.prototype.lookup from index i on: it goes on while a
\* root is left and no path was found.
RECURSIVE lookupFrom(_, _, _, _, _, _)
lookupFrom(roots, name, ext, i, path, stats) ==
    IF ~(i < Len(roots) /\ path = NoPath) THEN [path |-> path, stats |-> stats]
    ELSE LET loc  == pathResolve(roots[i + 1], name)
             dir  == dirname(loc)
             file == basename(loc)
         IN  lookupFrom(roots, name, ext, i + 1, resolve(dir, file, ext),
                        stats \o resolveStats(dir, file, ext))

\* View.prototype.lookup(name)
lookup(root, name, ext) == lookupFrom(RootList(root), name, ext, 0, NoPath, <<>>)

NoView == [name |-> <<>>, root |-> Undefined, ext |-> "", path |-> NoPath, stats |-> <<>>]

\* The values of the root option: one directory or a list of directories.
RootInputs ==
    { Str("/cwd/views"), Arr(<<>>),
      Arr(<<"/cwd/views", "/shared/views">>), Arr(<<"/shared/views", "/cwd/views">>),
      Arr(<<"/cwd/views", "/shared/views", "/theme/views">>),
      Arr(<<"/theme/views", "/shared/views", "/cwd/views">>) }

\* An entry of the file system is created, replaced or removed.
FsPut(p, kind) ==
    /\ fsys[p] # kind
    /\ fsys' = [fsys EXCEPT ![p] = kind]
    /\ UNCHANGED <<settings, trustProxyDefault, protoOf, userSet, inherited, lastCall, nops,
                   req, out, consulted, view, reads, router, renderVars>>

\* new View(name, {root: root, ...}) for a file name with extension ext:
\* the constructor ends with this.path = this.lookup(fileName).
NewView(root, name, ext) ==
    /\ view' = [name |-> name, root |-> root, ext |-> ext,
                path |-> lookup(root, name, ext).path,
                stats |-> lookup(root, name, ext).stats]
    /\ UNCHANGED <<settings, trustProxyDefault, protoOf, userSet, inherited, lastCall, nops,
                   req, out, consulted, fsys, reads, router, renderVars>>

-----------------------------------------------------------------------------
(* Rendering (app.render, app.engine and tryRender of src/lib/express.js, *)
(* the View constructor of src/unnamed/part_000)                           *)

\* View names are segments <<stem, ext>>: "user" is <<"user", "">>.
RenderNames ==
    { <<"user", "">>, <<"user", ".ejs">>, <<"user", ".bad">>, <<"user", ".none">>,
      <<"constructor", "">> }

Exts == {".ejs", ".pug", ".bad", ".none"}

\* The property key a view name is: only a name without extension can be
\* the name of a member of Object.prototype.
NameKey(name) == IF name[2] = "" THEN name[1] ELSE "<joined>"

\* Faulty variant of cacheGet: the cache never returns an entry.
cacheGetNothing(a, name) == Undefined

\* cache[name] on the plain object app.cache.
cacheGet(a, name) ==
    IF cache[a][name] # Absent THEN cache[a][name] ELSE ObjectPrototype(NameKey(name))

\* '.' + defaultEngine, or defaultEngine when it starts with a dot.
DotExt(engine) ==
    LET e == engine.l[1]
    IN  CASE e \in Exts -> e
          [] e = "ejs"  -> ".ejs"
          [] e = "pug"  -> ".pug"
          [] OTHER      -> ".none"

\* require(mod).__express for the module named by the extension: an engine
\* function, a module without __express, or a module that cannot be loaded.
Require(ext) ==
    CASE ext = ".ejs" -> Fn("ejs.__express")
      [] ext = ".pug" -> Fn("pug.__express")
      [] ext = ".bad" -> Undefined
      [] OTHER        -> Threw

AView(name, root, ext, engine, path) ==
    [t |-> "view", name |-> name, root |-> root, ext |-> ext, engine |-> engine, path |-> path]

\* new View(name, {defaultEngine, root, engines}) called by app a: what it
\* threw ("none" when it returned), the View, the own engine table of the
\* app afterwards and the paths it passed to tryStat.
ViewCtor(a, name) ==
    LET defaultEngine == Get(a, "view engine")
        root          == Get(a, "views")
        failed(err)   == [threw |-> err, view |-> NoView, engines |-> engines[a], stats |-> <<>>]
    IN  IF name[2] = "" /\ ~Truthy(defaultEngine) THEN failed("NoDefaultEngine")
        ELSE LET ext      == IF name[2] = "" THEN DotExt(defaultEngine) ELSE name[2]
                 fileName == <<name[1], ext>>
                 known    == Lookup(engines, protoOf, a, ext)
                 fn       == Require(ext)
             IN  IF ~Truthy(known) /\ fn = Threw THEN failed("ModuleNotFound")
                 ELSE IF ~Truthy(known) /\ ~IsFunction(fn) THEN failed("NoViewEngine")
                 ELSE LET own    == IF ~Truthy(known) THEN [engines[a] EXCEPT ![ext] = fn]
                                    ELSE engines[a]
                          engine == IF ~Truthy(known) THEN fn ELSE known
                          found  == lookup(root, <<fileName>>, ext)
                      IN  [threw |-> "none",
                           view |-> AView(name, root, ext, engine, found.path),
                           engines |-> own, stats |-> found.stats]

\* What an engine function does when it is called: it calls the callback
\* with a result, throws, calls the callback and then throws, or returns
\* without calling the callback.
EngineFns ==
    { Fn("engineCallsBack"), Fn("engineThrows"), Fn("engineCallsBackThenThrows"),
      Fn("engineSilent") }

Behaviour(fn) ==
    CASE fn.s = "engineThrows"              -> "throws"
      [] fn.s = "engineCallsBackThenThrows" -> "callsBackThenThrows"
      [] fn.s = "engineSilent"              -> "silent"
      [] OTHER                              -> "callsBack"

\* What the callback given to render does when it is called: it returns,
\* it throws on every call, or it throws when it is handed a result.
Callbacks == {"returns", "throws", "throwsOnResult"}

CbThrows(cb, arg) == cb = "throws" \/ (cb = "throwsOnResult" /\ arg = "null")

\* Faulty variant of tryRender: view.render is called outside of a try block.
tryRenderNoCatch(v, cb) ==
    IF v.t # "view" THEN [engineRuns |-> 0, calls |-> <<>>, thrown |-> "TypeError"]
    ELSE LET b     == Behaviour(v.engine)
             calls == IF b \in {"callsBack", "callsBackThenThrows"} THEN <<"null">> ELSE <<>>
             exc   == IF calls # <<>> /\ CbThrows(cb, "null") THEN "CallbackError"
                      ELSE IF b \in {"throws", "callsBackThenThrows"} THEN "EngineError"
                      ELSE "none"
         IN  [engineRuns |-> 1, calls |-> calls, thrown |-> exc]

\* tryRender(view, options, callback): the calls of the callback in order
\* (by their error argument, "null" for a result) and what is thrown to the
\* caller. A cached value that is no View has no render method, and the
\* call of it throws a TypeError inside the try block.
tryRender(v, cb) ==
    LET b      == IF v.t = "view" THEN Behaviour(v.engine) ELSE "noRender"
        called == IF b \in {"callsBack", "callsBackThenThrows"} THEN <<"null">> ELSE <<>>
        exc    == IF b = "noRender" THEN "TypeError"
                  ELSE IF called # <<>> /\ CbThrows(cb, "null") THEN "CallbackError"
                  ELSE IF b \in {"throws", "callsBackThenThrows"} THEN "EngineError"
                  ELSE "none"
    IN  [engineRuns |-> IF b = "noRender" THEN 0 ELSE 1,
         calls  |-> IF exc = "none" THEN called ELSE Append(called, exc),
         thrown |-> IF exc # "none" /\ CbThrows(cb, exc) THEN "CallbackError" ELSE "none"]

\* merge(renderOptions, source) for the cache option: a source that has the
\* key replaces the value.
Merge(into, from) == IF from = Absent THEN into ELSE from

\* Faulty variant of ErrorDirs: only the last root is named.
ErrorDirsLastOnly(root) ==
    IF root.t = "array" /\ Len(root.l) > 0 THEN <<root.l[Len(root.l)]>>
    ELSE IF root.t = "array" THEN root.l ELSE <<Joined(root.l)>>

\* The directories the lookup error names: all of a list of several roots,
\* else the root converted to a string.
ErrorDirs(root) ==
    IF root.t = "array" /\ Len(root.l) > 1
    THEN Append(SubSeq(root.l, 1, Len(root.l) - 1), root.l[Len(root.l)])
    ELSE IF root.t = "array" THEN root.l ELSE <<Joined(root.l)>>

NoError == [kind |-> "none", view |-> <<>>, dirs |-> <<>>]

\* A render call: the app, the name, the cache options of app.locals,
\* options._locals and options, the behaviour of the callback; whether the
\* cache was on, a cached value was used, the View constructor was called;
\* the paths passed to tryStat, the engine called and how often, the calls
\* of the callback in order, what was thrown to the caller, and the lookup
\* error handed to the callback.
NoRender ==
    [app |-> NoApp, name |-> <<>>, opts |-> <<>>, cb |-> "", cacheOn |-> FALSE, hit |-> FALSE,
     constructed |-> FALSE, stats |-> <<>>, engine |-> Undefined, engineRuns |-> 0,
     calls |-> <<>>, thrown |-> "none", err |-> NoError]

\* Faulty variant of UseCache: the cache is on whatever the options and the setting say.
UseCacheAlways(a, given) == TRUE

\* renderOptions.cache after the merge: the 'view cache' setting when no
\* source gave a value (== null), else the value given.
UseCache(a, given) ==
    IF given \in {Absent, Undefined, Null} THEN enabled(a, "view cache") ELSE Truthy(given)

\* The outcome of app.render(name, options, callback) on app a, where
\* app.locals, options._locals and options hold the cache options lc, plc
\* and oc, and the callback behaves as cb: the record of the call, the own
\* cache and engine tables of the app afterwards, and the View constructed.
RenderOutcome(a, name, lc, plc, oc, cb) ==
    LET given   == Merge(Merge(Merge(Absent, lc), plc), oc)
        cacheOn == UseCache(a, given)
        cached  == IF cacheOn THEN cacheGet(a, name) ELSE Undefined
        base    == [NoRender EXCEPT !.app = a, !.name = name, !.opts = <<lc, plc, oc>>,
                                     !.cb = cb, !.cacheOn = cacheOn]
    IN  IF Truthy(cached)
        THEN LET r == tryRender(cached, cb)
             IN  [call |-> [base EXCEPT !.hit = TRUE, !.engineRuns = r.engineRuns,
                                        !.engine = IF cached.t = "view" THEN cached.engine
                                                   ELSE Undefined,
                                        !.calls = r.calls, !.thrown = r.thrown],
                  cache |-> cache[a], engines |-> engines[a], view |-> view]
        ELSE LET c == ViewCtor(a, name)
             IN  IF c.threw # "none"
                 THEN [call |-> [base EXCEPT !.constructed = TRUE, !.thrown = c.threw],
                       cache |-> cache[a], engines |-> engines[a], view |-> view]
                 ELSE IF c.view.path = NoPath
                 THEN [call |-> [base EXCEPT !.constructed = TRUE, !.stats = c.stats,
                                   !.calls = <<"LookupError">>,
                                   !.err = [kind |-> "LookupError", view |-> name,
                                            dirs |-> ErrorDirs(c.view.root)],
                                   !.thrown = IF CbThrows(cb, "LookupError")
                                              THEN "CallbackError" ELSE "none"],
                       cache |-> cache[a], engines |-> c.engines, view |-> c.view]
                 ELSE LET r == tryRender(c.view, cb)
                      IN  [call |-> [base EXCEPT !.constructed = TRUE, !.stats = c.stats,
                                        !.engine = c.view.engine,
                                        !.engineRuns = r.engineRuns,
                                        !.calls = r.calls, !.thrown = r.thrown],
                           cache |-> IF cacheOn THEN [cache[a] EXCEPT ![name] = c.view]
                                     ELSE cache[a],
                           engines |-> c.engines, view |-> c.view]

\* app.render(name, options, callback)
Render(a, name, lc, plc, oc, cb) ==
    \E o \in {RenderOutcome(a, name, lc, plc, oc, cb)} :
        /\ rendered' = o.call
        /\ cache' = [cache EXCEPT ![a] = o.cache]
        /\ engines' = [engines EXCEPT ![a] = o.engines]
        /\ view' = o.view
        /\ built' = IF o.call.cacheOn /\ o.call.constructed /\ o.call.thrown \notin
                                       {"NoDefaultEngine", "ModuleNotFound", "NoViewEngine"}
                    THEN [built EXCEPT ![name] = IF @ = "never" THEN "once" ELSE "again"]
                    ELSE built
        /\ UNCHANGED <<settings, trustProxyDefault, protoOf, userSet, inherited, lastCall, nops,
                       req, out, consulted, fsys, reads, router>>

\* app.engine(ext, fn) with a function fn.
Engine(a, ext, fn) ==
    /\ engines' = [engines EXCEPT ![a][IF ext \in Exts THEN ext ELSE DotExt(Str(ext))] = fn]
    /\ UNCHANGED <<settings, trustProxyDefault, protoOf, userSet, inherited, lastCall, nops,
                   req, out, consulted, fsys, view, reads, router, cache, rendered, built>>

\* The values the model sets "subdomain offset" to while a request is served.
Offsets == {2, 3}

\* The values the model sets "trust proxy" to while a request is served.
TrustInputs ==
    { Bool(TRUE), Bool(FALSE), Str("10.0.0.1"),
      StrC(<<"10.0.0.0/8", ",", " ", "1.2.3.4">>), UserTrust, Str("bogus"),
      Undefined, Null, Arr(<<>>), Arr(<<"10.0.0.1", "1.2.3.4">>),
      StrC(<<"10.0.0.1", ",", "1.2.3.4">>), StrC(<<"10.0.0.1", " ", "1.2.3.4">>),
      StrC(<<"10.0.0.1", " ", ",", " ", "1.2.3.4">>) }
    \cup { Num(n) : n \in 0..MaxHopCount }

Init ==
    /\ settings = [a \in Apps |-> DefaultSettings]
    /\ trustProxyDefault = [a \in Apps |-> TRUE]
    /\ protoOf = [a \in Apps |-> NoApp]
    /\ userSet = [a \in Apps |-> {}]
    /\ inherited = [a \in Apps |-> FALSE]
    /\ lastCall = Call("init", NoApp, "", Undefined, NoApp)
    /\ nops = 0
    /\ req = NoReq
    /\ out = NoOut
    /\ consulted = FALSE
    /\ fsys = [p \in FsPaths |-> "none"]
    /\ view = NoView
    /\ reads = 0
    /\ router = [a \in Apps |-> NoRouter]
    /\ cache = [a \in Apps |-> [n \in RenderNames |-> Absent]]
    /\ engines = [a \in Apps |-> [e \in Exts |-> Absent]]
    /\ rendered = NoRender
    /\ built = [n \in RenderNames |-> "never"]

\* One more call of the application's setup API, up to MaxOps calls.
Counted == nops < MaxOps /\ nops' = nops + 1

SetAny == \E a \in Apps, kv \in SetInputs : Counted /\ Set(a, kv[1], kv[2])
MountAny == \E p \in Apps, c \in Apps : Counted /\ Mount(p, c)

Next == SetAny \/ MountAny

Spec == Init /\ [][Next]_vars

\* The application serving one request: the trust setting may change between reads.
ReqSetTrust == \E v \in TrustInputs : Set("app", "trust proxy", v) /\ UNCHANGED nops
ReceiveAny == \E r \in Requests : Receive(r)
ReadAny == \E f \in Fields : Read(f)

NextReq == ReqSetTrust \/ ReceiveAny \/ ReadAny

SpecReq == Init /\ [][NextReq]_vars

\* The application serving one request whose host is read: 'trust proxy' and
\* 'subdomain offset' may change between reads.
HostSetTrust == \E b \in BOOLEAN : Set("app", "trust proxy", Bool(b)) /\ UNCHANGED nops
HostSetOffset == \E n \in Offsets : Set("app", "subdomain offset", Num(n)) /\ UNCHANGED nops
ReceiveHost == \E r \in HostRequests : Receive(r)
ReadHost == \E f \in HostFields : Read(f)

NextHost == HostSetTrust \/ HostSetOffset \/ ReceiveHost \/ ReadHost

SpecHost == Init /\ [][NextHost]_vars

\* The application serving one request whose freshness is read.
ReceiveFresh == \E r \in FreshRequests : Receive(r)
ReadFresh == \E f \in FreshFields : Read(f)

NextFresh == ReceiveFresh \/ ReadFresh

SpecFresh == Init /\ [][NextFresh]_vars

\* Views are looked up while the file system changes.
FsPutAny == \E p \in FsPaths, kind \in Kinds : FsPut(p, kind)
NewViewAny == \E root \in RootInputs : NewView(root, <<ViewFile>>, ViewExt)

NextView == FsPutAny \/ NewViewAny

SpecView == Init /\ [][NextView]_vars

\* Renders of one application while its settings, its engine table and the
\* view files change; the engines call back and the callbacks return.
RenderSetInputs ==
    { <<"view cache", Bool(TRUE)>>, <<"view cache", Bool(FALSE)>>,
      <<"view engine", Str("ejs")>>, <<"views", Arr(<<"/shared/views", "/theme/views">>)>> }

RenderPaths ==
    { join(<<<<r, "">>>>, ViewFile) : r \in {"/cwd/views", "/shared/views"} }

CacheOptions ==
    { <<Absent, Absent, Absent>>, <<Absent, Absent, Bool(TRUE)>>,
      <<Bool(TRUE), Bool(FALSE), Absent>>, <<Absent, Bool(TRUE), Undefined>> }

RenderSet == \E kv \in RenderSetInputs : Set("app", kv[1], kv[2]) /\ UNCHANGED nops
RenderFsPut == \E p \in RenderPaths, kind \in {"none", "file"} : FsPut(p, kind)
RenderEngine == Engine("app", "ejs", Fn("engineCallsBack"))
RenderCached ==
    \E name \in {<<"user", "">>, <<"constructor", "">>}, c \in CacheOptions :
        Render("app", name, c[1], c[2], c[3], "returns")

NextRender == RenderSet \/ RenderFsPut \/ RenderEngine \/ RenderCached

SpecRender == Init /\ [][NextRender]_vars

\* Renders of one application with engines and callbacks of every behaviour.
EngineRegister == \E fn \in EngineFns : Engine("app", ".ejs", fn)
EngineFsPut == \E kind \in {"none", "file"} : FsPut(join(<<<<"/cwd/views", "">>>>, ViewFile), kind)
RenderWithEngine ==
    \E name \in RenderNames \ {<<"constructor", "">>}, oc \in {Absent, Bool(TRUE)},
       cb \in Callbacks :
        Render("app", name, Absent, Absent, oc, cb)

\* An application whose routing settings change before and after its
\* router is built.
RouterSetInputs ==
    { <<"query parser", Str("simple")>>, <<"query parser", Bool(FALSE)>>,
      <<"query parser", Str("extended")>>, <<"query parser", Str("bogus")>>,
      <<"strict routing", Bool(TRUE)>>, <<"strict routing", Bool(FALSE)>>,
      <<"case sensitive routing", Bool(TRUE)>>, <<"case sensitive routing", Bool(FALSE)>> }

RouterSet == \E kv \in RouterSetInputs : Set("app", kv[1], kv[2]) /\ UNCHANGED nops
RouterUse == Mount("app", "admin") /\ UNCHANGED nops
RouteAny == \E a \in {"app", "admin"}, op \in RoutingOps : Route(a, op)

NextRouter == RouterSet \/ RouterUse \/ RouteAny

SpecRouter == Init /\ [][NextRouter]_vars

NextEngine == EngineRegister \/ EngineFsPut \/ RenderWithEngine

SpecEngine == Init /\ [][NextEngine]_vars

-----------------------------------------------------------------------------
(* Properties of the settings store (checked under Spec) *)

TrustKeys == {"trust proxy", "trust proxy fn"}

\* C1: a sub-application whose user never called set('trust proxy', ...) and
\* that was mounted under a parent with a compiled trust function returns,
\* at every later point, the parent's current 'trust proxy' and
\* 'trust proxy fn', through every level of mounting.
C1_TrustInherited ==
    \A c \in Apps :
        (inherited[c] /\ "trust proxy" \notin userSet[c]) =>
            /\ protoOf[c] # NoApp
            /\ \A k \in TrustKeys : Get(c, k) = Get(protoOf[c], k)

\* C1 witness: blog is mounted under admin, admin under app, neither set
\* its trust; app then sets 'trust proxy' to true and blog reads true.
C1_Witness ==
    /\ protoOf["blog"] = "admin" /\ protoOf["admin"] = "app"
    /\ inherited["blog"] /\ inherited["admin"]
    /\ userSet["blog"] = {} /\ userSet["admin"] = {}
    /\ lastCall = Call("set", "app", "trust proxy", Bool(TRUE), "app")
    /\ Get("blog", "trust proxy") = Bool(TRUE)
    /\ Get("blog", "trust proxy fn") = Fn("trustAll")

C7_CompiledMatchesPrimary ==
    \A a \in Apps : \A k \in PrimaryKeys :
        Get(a, CompiledKey(k)) = Compile(k, Get(a, k))

\* C8: set(k, v) on a mounted sub-application makes its get(k) return v,
\* leaves every get of its parent and of the other applications mounted under
\* that parent unchanged, and returns the application itself; a key written
\* by a set that returned stays an own property of the application.
C8_SetWritesOwnStore ==
    [][ /\ \A a \in Apps :
             (lastCall'.op = "set" /\ lastCall'.app = a /\ protoOf[a] # NoApp) =>
                /\ Lookup(settings', protoOf', a, lastCall'.arg) = lastCall'.val
                /\ lastCall'.ret \in {a, "TypeError"}
                /\ \A b \in Apps \ {a} :
                     (b = protoOf[a] \/ protoOf[b] = protoOf[a]) =>
                        \A k \in Keys :
                           Lookup(settings', protoOf', b, k) = Lookup(settings, protoOf, b, k)
        /\ \A c \in Apps : \A k \in userSet'[c] :
             (k # "trust proxy" \/ ~trustProxyDefault'[c]) => settings'[c][k] # Absent
      ]_vars

\* C8 witness: admin and blog are mounted under app; admin sets 'view engine',
\* which app and blog still do not have.
C8_Witness ==
    /\ protoOf["admin"] = "app" /\ protoOf["blog"] = "app"
    /\ lastCall = Call("set", "admin", "view engine", Str("ejs"), "admin")
    /\ Get("admin", "view engine") = Str("ejs")
    /\ Get("app", "view engine") = Undefined
    /\ Get("blog", "view engine") = Undefined

\* The keys the user of app c never wrote, directly or through a primary key.
NeverSet(c) ==
    {k \in Keys : k \notin userSet[c]
                  /\ \A q \in PrimaryKeys : (k = CompiledKey(q)) => q \notin userSet[c]}

\* C9: after parent.use(child), child.get(k) returns the parent's value for
\* every setting k the child's user never set.
C9_MountedInheritsAll ==
    \A c \in Apps :
        (protoOf[c] # NoApp) =>
            \A k \in NeverSet(c) : Get(c, k) = Get(protoOf[c], k)

-----------------------------------------------------------------------------
(* Properties of the derived request fields (checked under SpecReq) *)

Trust(r) == Get(r.app, "trust proxy fn")

BaseProtocol(r) == IF r.encrypted THEN Str("https") ELSE Str("http")

\* C3: when the trust policy rejects the socket peer at hop 0, req.protocol
\* is the transport's protocol and req.secure the transport's flag, whatever
\* X-Forwarded-Proto holds.
C3_UntrustedPeerProtocol ==
    (req # NoReq /\ ~TrustApply(Trust(req), req.peer, 0)) =>
        \A h \in ProtoHeaders :
            /\ protocol([req EXCEPT !.xfproto = h]) = BaseProtocol(req)
            /\ secure([req EXCEPT !.xfproto = h]) = Bool(req.encrypted)

\* C3 witness: plain transport, untrusted peer, X-Forwarded-Proto: https,
\* and the protocol read is "http".
C3_Witness ==
    /\ req # NoReq /\ ~req.encrypted /\ req.xfproto = Str("https")
    /\ ~TrustApply(Trust(req), req.peer, 0)
    /\ out = [field |-> "protocol", val |-> Str("http")]

\* The hostname the Host header alone gives.
HostOnly(r) == IF Truthy(r.host) THEN StrC(StripPort(r.host.l)) ELSE Undefined

\* C4: when X-Forwarded-Host is absent or the trust policy rejects the socket
\* peer at hop 0, req.hostname comes from the Host header only.
C4_UntrustedPeerHostname ==
    req # NoReq =>
        /\ hostname([req EXCEPT !.xfhost = Undefined]) = HostOnly(req)
        /\ ~TrustApply(Trust(req), req.peer, 0) =>
              \A x \in ForwardedHostHeaders :
                  hostname([req EXCEPT !.xfhost = x]) = HostOnly(req)

\* C4 witness: untrusted peer, X-Forwarded-Host present, Host with a port,
\* and the hostname read is the Host header's.
C4_Witness ==
    /\ req # NoReq
    /\ req.xfhost = StrC(<<"proxy", ".", "example", ".", "com">>)
    /\ req.host = StrC(<<"example", ".", "com", ":", "8080">>)
    /\ ~TrustApply(Trust(req), req.peer, 0)
    /\ out = [field |-> "hostname", val |-> StrC(<<"example", ".", "com">>)]

\* The chain of the proxy walk: start at the socket peer, and while the
\* policy accepts the last element at the current hop and a forwarded
\* address is left, append the next one (nearest first).
RECURSIVE Walk(_, _, _, _)
Walk(chain, rest, hop, trust) ==
    IF rest # <<>> /\ TrustApply(trust, chain[Len(chain)], hop)
    THEN Walk(Append(chain, Head(rest)), Tail(rest), hop + 1, trust)
    ELSE chain

Chain(r) == Walk(<<r.peer>>, Tail(forwarded(r)), 0, Trust(r))

Last(q) == q[Len(q)]

\* The first index of the chain whose address the policy rejects at its hop.
Rejected(r) ==
    LET all == forwarded(r)
    IN  {i \in 1..Len(all) : ~TrustApply(Trust(r), all[i], i - 1)}

\* C5: req.ip is the last element of the chain of the proxy walk: the socket
\* peer when hop 0 is untrusted or nothing was forwarded, otherwise the first
\* address the policy rejects, or the leftmost forwarded address when every
\* hop before it is trusted.
C5_IpIsEndOfChain ==
    req # NoReq =>
        LET all == forwarded(req)
            rej == Rejected(req) \ {Len(all)}
        IN  /\ ip(req) = Str(Last(Chain(req)))
            /\ (~TrustApply(Trust(req), req.peer, 0) \/ Len(all) = 1)
                  => ip(req) = Str(req.peer)
            /\ ip(req) = Str(IF rej # {} THEN all[Min(rej)] ELSE Last(all))

\* C5 witness: only the peer 10.0.0.1 is trusted, X-Forwarded-For is
\* "9.9.9.9, 1.2.3.4, 10.0.0.2", and the ip read is 10.0.0.2, the first
\* address the policy rejects.
C5_Witness ==
    /\ req # NoReq /\ req.peer = "10.0.0.1"
    /\ req.xff = StrC(<<"9.9.9.9", ",", "1.2.3.4", ",", " ", "10.0.0.2">>)
    /\ Get("app", "trust proxy") = Str("10.0.0.1")
    /\ Chain(req) = <<"10.0.0.1", "10.0.0.2">>
    /\ out = [field |-> "ip", val |-> Str("10.0.0.2")]

\* C6: req.ips is the chain of the proxy walk without the socket peer, in
\* reverse order: empty when hop 0 is untrusted or nothing was forwarded,
\* one element shorter than the chain, and starting with req.ip when it is
\* not empty.
C6_IpsIsReversedChain ==
    req # NoReq =>
        /\ ips(req) = Arr(Reverse(Tail(Chain(req))))
        /\ (~TrustApply(Trust(req), req.peer, 0) \/ ~Truthy(req.xff)) => ips(req) = Arr(<<>>)
        /\ Len(ips(req).l) = Len(Chain(req)) - 1
        /\ ips(req).l # <<>> => Str(ips(req).l[1]) = ip(req)

\* C6 witness: every hop trusted, three forwarded addresses, and the ips
\* read lists them farthest first.
C6_Witness ==
    /\ req # NoReq /\ req.peer = "10.0.0.1"
    /\ req.xff = StrC(<<"9.9.9.9", ",", "1.2.3.4", ",", " ", "10.0.0.2">>)
    /\ Get("app", "trust proxy") = Bool(TRUE)
    /\ out = [field |-> "ips", val |-> Arr(<<"9.9.9.9", "1.2.3.4", "10.0.0.2">>)]

\* C10: the policy compiled from a number n trusts hop i exactly when i < n,
\* for every remote address.
C10_HopCountPolicy ==
    \A a \in Apps :
        Get(a, "trust proxy").t = "number" =>
            \A addr \in Addresses \cup {"bad"} : \A i \in 0..(MaxHopCount + 2) :
                TrustApply(Get(a, "trust proxy fn"), addr, i) <=> (i < Get(a, "trust proxy").n)

\* C10 witness: 'trust proxy' is 2, the walk over three forwarded addresses
\* trusted hops 0 and 1 and stopped at hop 2.
C10_Witness ==
    /\ Get("app", "trust proxy") = Num(2)
    /\ req # NoReq /\ req.peer = "1.2.3.4"
    /\ req.xff = StrC(<<"9.9.9.9", ",", "1.2.3.4", ",", " ", "10.0.0.2">>)
    /\ out = [field |-> "ips", val |-> Arr(<<"1.2.3.4", "10.0.0.2">>)]

\* The 'trust proxy' value of the last set call that returned, or Absent.
TrustJustSet ==
    IF lastCall.op = "set" /\ lastCall.arg = "trust proxy" /\ lastCall.ret # "TypeError"
    THEN lastCall.val ELSE Absent

Hops == 0..(MaxHopCount + 2)

\* C11: after set('trust proxy', v) the compiled policy trusts every
\* (address, hop) pair when v is true; trusts no pair when v is false, null,
\* undefined or the empty list; gives, for an address list, an answer that
\* depends on the remote address only and never on the hop; and is v itself
\* when v is a function.
C11_CompileTrustCases ==
    LET v  == TrustJustSet
        fn == Get("app", "trust proxy fn")
        A  == Addresses \cup {"bad"}
    IN  v # Absent =>
          /\ IsFunction(fn)
          /\ v = Bool(TRUE) => \A addr \in A, i \in Hops : TrustApply(fn, addr, i)
          /\ v \in {Bool(FALSE), Null, Undefined, Arr(<<>>)} =>
                \A addr \in A, i \in Hops : ~TrustApply(fn, addr, i)
          /\ v.t = "array" =>
                \A addr \in A, i \in Hops, j \in Hops :
                    TrustApply(fn, addr, i) <=> TrustApply(fn, addr, j)
          /\ IsFunction(v) => fn = v

\* C11 witness: 'trust proxy' was set to null, the peer sent
\* X-Forwarded-Proto: https over a plain socket, and the protocol read is
\* the transport's "http".
C11_Witness ==
    /\ TrustJustSet = Null
    /\ req # NoReq /\ req.xfproto = Str("https") /\ ~req.encrypted
    /\ out = [field |-> "protocol", val |-> Str("http")]

\* The k-th element of a finite set of integers, in increasing order.
Nth(S, k) == CHOOSE x \in S : Cardinality({y \in S : y < x}) = k - 1

\* The run of chunks of cs that starts at position from and ends before the
\* first chunk in Sep.
RunFrom(cs, from, Sep) ==
    LET ends == {j \in from..Len(cs) : cs[j] \in Sep}
    IN  SubSeq(cs, from, (IF ends = {} THEN Len(cs) + 1 ELSE Min(ends)) - 1)

\* The words of a string: the maximal runs without a comma and without a space.
Words(cs) ==
    LET Sep    == {",", " "}
        starts == {i \in 1..Len(cs) : cs[i] \notin Sep /\ (i = 1 \/ cs[i - 1] \in Sep)}
    IN  [k \in 1..Cardinality(starts) |-> Joined(RunFrom(cs, Nth(starts, k), Sep))]

\* The pieces of a string between its commas; a piece loses the spaces that
\* touch a comma.
CommaPieces(cs) ==
    LET starts == {1} \cup {i + 1 : i \in {j \in 1..Len(cs) : cs[j] = ","}}
        n      == Cardinality(starts)
        raw(k) == RunFrom(cs, Nth(starts, k), {","})
        cut(k) == LET r == IF k > 1 THEN TrimLeft(raw(k)) ELSE raw(k)
                  IN  IF k < n THEN TrimRight(r) ELSE r
    IN  [k \in 1..n |-> Joined(cut(k))]

\* The last call was set('trust proxy', v) with a string v, and it ended as
\* compileTrust of the list es ends: in the same throw, or with the same
\* policy stored.
StringSetActsAsList(Split(_)) ==
    (lastCall.op = "set" /\ lastCall.arg = "trust proxy" /\ lastCall.val.t = "string") =>
        LET viaList == compileTrust(Arr(Split(lastCall.val.l)))
        IN  IF lastCall.ret = "TypeError" THEN viaList = Threw
            ELSE Get(lastCall.app, "trust proxy fn") = viaList

\* C12 as stated: compileTrust of a string splits it on commas and on
\* whitespace and yields the policy of the resulting list, so that 'a, b',
\* 'a,b' and 'a b' all give the policy of ['a', 'b'].
C12_SplitsOnCommaAndSpace == StringSetActsAsList(Words)

\* C12 amended: compileTrust of a string splits it at its commas, each comma
\* taking the spaces next to it, and yields the policy of the resulting
\* list: 'a, b', 'a,b' and 'a , b' give the policy of ['a', 'b'], and a
\* string without a comma is one entry.
C12_SplitsOnComma == StringSetActsAsList(CommaPieces)

\* C12 witness: 'trust proxy' was set to "10.0.0.1 , 1.2.3.4", the stored
\* policy is that of the two-address list, and the peer 1.2.3.4 is trusted
\* with its X-Forwarded-Proto.
C12_Witness ==
    /\ lastCall = Call("set", "app", "trust proxy",
                       StrC(<<"10.0.0.1", " ", ",", " ", "1.2.3.4">>), "app")
    /\ Get("app", "trust proxy fn") = compileTrust(Arr(<<"10.0.0.1", "1.2.3.4">>))
    /\ req # NoReq /\ req.peer = "1.2.3.4" /\ req.xfproto = Str("https") /\ ~req.encrypted
    /\ out = [field |-> "protocol", val |-> Str("https")]

\* The first comma-delimited token of a header value, without the
\* whitespace around it.
FirstToken(h) == StrC(Trim(RunFrom(h.l, 1, {","})))

\* C13: when the trust policy accepts the socket peer at hop 0, req.protocol
\* is the first comma-delimited token of X-Forwarded-Proto, trimmed, and the
\* transport's value when the header is absent; the X-Forwarded-For
\* addresses play no part in it.
C13_TrustedPeerProtocol ==
    (req # NoReq /\ TrustApply(Trust(req), req.peer, 0)) =>
        \A h \in ProtoHeaders : \A f \in ForwardedForHeaders :
            protocol([req EXCEPT !.xfproto = h, !.xff = f]) =
                IF h = Undefined THEN BaseProtocol(req) ELSE FirstToken(h)

\* C13 witness: the peer is trusted, X-Forwarded-Proto is " http " on an
\* encrypted socket, and the protocol read is "http".
C13_Witness ==
    /\ req # NoReq /\ TrustApply(Trust(req), req.peer, 0)
    /\ req.encrypted /\ req.xfproto = StrC(<<" ", "http", " ">>)
    /\ out = [field |-> "protocol", val |-> Str("http")]

\* C14: req.protocol is "http" or "https" for every trust policy, transport
\* flag and X-Forwarded-Proto value.
C14_ProtocolIsHttpOrHttps ==
    req # NoReq => protocol(req) \in {Str("http"), Str("https")}

\* A host string that ends in ':port': the part before the last colon is a
\* bracketed literal or holds no colon, and a port follows the colon.
HasPort(cs) ==
    /\ Len(cs) >= 3 /\ cs[Len(cs) - 1] = ":" /\ cs[Len(cs)] \notin {":", "]", "[", ".", ",", " "}
    /\ LET name == SubSeq(cs, 1, Len(cs) - 2)
       IN  \/ name[1] = "[" /\ name[Len(name)] = "]"
           \/ \A i \in 1..Len(name) : name[i] # ":"

\* A host string without a port: a bracketed literal, or no colon at all.
HasNoPort(cs) ==
    \/ cs[1] = "[" /\ cs[Len(cs)] = "]"
    \/ \A i \in 1..Len(cs) : cs[i] # ":"

\* C15: req.hostname is the host without its trailing ':port'; the colons
\* inside a leading bracketed IPv6 literal are not taken for the separator,
\* and a host without a port is returned unchanged.
C15_HostnameStripsPort ==
    (req # NoReq /\ Truthy(ChosenHost(req))) =>
        LET host == ChosenHost(req).l
        IN  /\ HasPort(host) => hostname(req) = StrC(SubSeq(host, 1, Len(host) - 2))
            /\ HasNoPort(host) => hostname(req) = StrC(host)
            /\ HasPort(host) \/ HasNoPort(host)

\* C15 witness: the Host header is "[::1]:8080" and the hostname read is "[::1]".
C15_Witness ==
    /\ req # NoReq /\ req.xfhost = Undefined
    /\ req.host = StrC(<<"[", ":", ":", "1", "]", ":", "8080">>)
    /\ out = [field |-> "hostname", val |-> StrC(<<"[", ":", ":", "1", "]">>)]

-----------------------------------------------------------------------------
(* Properties of req.subdomains (checked under SpecHost) *)

\* A hostname that is an IP literal: a dotted IPv4 address, or an IPv6
\* address in the brackets req.hostname keeps.
IsIPLiteral(cs) ==
    \/ isIP(cs) = 4
    \/ /\ Len(cs) >= 3 /\ cs[1] = "[" /\ cs[Len(cs)] = "]"
       /\ isIP(SubSeq(cs, 2, Len(cs) - 1)) = 6

\* The dot-separated labels of a hostname, left to right.
Labels(cs) ==
    LET starts == {1} \cup {i + 1 : i \in {j \in 1..Len(cs) : cs[j] = "."}}
    IN  [k \in 1..Cardinality(starts) |-> Joined(RunFrom(cs, Nth(starts, k), {"."}))]

Offset == Get("app", "subdomain offset").n

\* C16: for a hostname that is no IP literal, req.subdomains is the list of
\* its dot-separated labels in reverse order without the first 'subdomain
\* offset' ones: "tobi.ferrets.example.com" gives ["ferrets", "tobi"] at
\* offset 2 and ["tobi"] at offset 3, a hostname with no more labels than
\* the offset gives [], and so does an absent hostname.
C16_SubdomainsReversedLabels ==
    req # NoReq =>
        LET hn == hostname(req)
            sd == subdomains(req)
        IN  /\ hn = Undefined => sd = Arr(<<>>)
            /\ (Truthy(hn) /\ ~IsIPLiteral(hn.l)) =>
                  LET labels == Labels(hn.l)
                      n      == Len(labels)
                  IN  /\ n <= Offset => sd = Arr(<<>>)
                      /\ n > Offset =>
                            sd = Arr([k \in 1..(n - Offset) |-> labels[n - Offset - k + 1]])
            /\ hn = StrC(<<"tobi", ".", "ferrets", ".", "example", ".", "com">>) =>
                  sd = Arr(IF Offset = 2 THEN <<"ferrets", "tobi">> ELSE <<"tobi">>)

\* C16 witness: 'subdomain offset' was set to 3, the Host header is
\* "tobi.ferrets.example.com", and the subdomains read are ["tobi"].
C16_Witness ==
    /\ Get("app", "subdomain offset") = Num(3)
    /\ req # NoReq /\ req.xfhost = Undefined
    /\ req.host = StrC(<<"tobi", ".", "ferrets", ".", "example", ".", "com">>)
    /\ out = [field |-> "subdomains", val |-> Arr(<<"tobi">>)]

\* C17: for every hostname that is an IP literal (dotted IPv4, bracketed
\* IPv6, bracketed IPv6 with an embedded dotted IPv4 part), req.subdomains
\* takes the host as one element and is [] at the default offset 2.
C17_IPLiteralHasNoSubdomains ==
    (req # NoReq /\ Truthy(hostname(req)) /\ IsIPLiteral(hostname(req).l) /\ Offset = 2) =>
        subdomains(req) = Arr(<<>>)

-----------------------------------------------------------------------------
(* Properties of req.fresh and req.stale (checked under SpecFresh) *)

\* The response status allows a freshness check: 2xx or 304.
StatusAllowsFresh(st) == st \in 200..299 \cup {304}

\* C18: a read of req.fresh gives false, without a call of the evaluator,
\* for every method other than GET and HEAD and for every response status
\* outside 200..299 other than 304; otherwise it gives the evaluator's
\* result; req.stale is the negation of req.fresh.
C18_FreshGuards ==
    req # NoReq =>
        LET guarded == req.method \notin {"GET", "HEAD"} \/ ~StatusAllowsFresh(req.status)
        IN  /\ out.field = "fresh" =>
                  IF guarded THEN out.val = Bool(FALSE) /\ ~consulted
                  ELSE out.val = Bool(freshEvaluator(req.cond)) /\ consulted
            /\ out.field = "stale" =>
                  IF guarded THEN out.val = Bool(TRUE) /\ ~consulted
                  ELSE out.val = Bool(~freshEvaluator(req.cond)) /\ consulted
            /\ stale(req) = Bool(fresh(req) = Bool(FALSE))

\* C18 witness: a POST whose validators match (the evaluator would answer
\* true) was read as not fresh, and the evaluator was not called.
C18_Witness ==
    /\ req # NoReq /\ req.method = "POST" /\ req.status = 200
    /\ freshEvaluator(req.cond)
    /\ out = [field |-> "fresh", val |-> Bool(FALSE)]
    /\ ~consulted

-----------------------------------------------------------------------------
(* Properties of the view lookup (checked under SpecView) *)

\* The two candidates of the view "user.ejs" under root r.
DirectPath(r) == <<<<r, "">>, <<"user", ".ejs">>>>
IndexPath(r) == <<<<r, "">>, <<"user", "">>, <<"index", ".ejs">>>>

\* Root r holds the view: one of its candidates is a regular file.
Holds(r) == fsys[DirectPath(r)] = "file" \/ fsys[IndexPath(r)] = "file"

C20_DirectThenIndex ==
    \A r \in ViewRoots :
        LET got == resolve(<<<<r, "">>>>, ViewFile, ViewExt)
        IN  /\ fsys[DirectPath(r)] = "file" => got = DirectPath(r)
            /\ (fsys[DirectPath(r)] # "file" /\ fsys[IndexPath(r)] = "file") => got = IndexPath(r)
            /\ (fsys[DirectPath(r)] # "file" /\ fsys[IndexPath(r)] # "file") => got = NoPath
            /\ lookup(Str(r), <<ViewFile>>, ViewExt).path = got

\* C20 witness: under /cwd/views "user.ejs" is a directory and
\* "user/index.ejs" is a regular file, and the path looked up is the index
\* file's.
C20_Witness ==
    /\ view.root = Str("/cwd/views")
    /\ fsys[DirectPath("/cwd/views")] = "dir"
    /\ fsys[IndexPath("/cwd/views")] = "file"
    /\ view.path = IndexPath("/cwd/views")

-----------------------------------------------------------------------------
(* Properties that span several calls *)

\* The value of field f derived from request r and the settings as they are now.
DerivedNow(f, r) ==
    CASE f = "protocol" -> protocol(r)
      [] f = "secure"   -> secure(r)
      [] f = "ip"       -> ip(r)
      [] f = "ips"      -> ips(r)
      [] f = "hostname" -> hostname(r)

\* C26: derived request fields are not cached on the request: every read
\* returns the value computed from the headers and the settings current at
\* the read, so a read that follows set('trust proxy', v) uses the policy
\* compiled from v, and reads without a change in between return equal
\* values.
C26_ReadsAreRecomputed ==
    [][ reads' = reads + 1 =>
          /\ out'.val = DerivedNow(out'.field, req)
          /\ TrustJustSet # Absent =>
                Get("app", "trust proxy fn") = compileTrust(TrustJustSet)
          /\ (reads >= 1 /\ out'.field = out.field /\ out.val = DerivedNow(out.field, req))
                => out'.val = out.val
      ]_vars

\* C26 witness: on a plain socket with X-Forwarded-Proto: https the
\* protocol was read twice, 'trust proxy' was set to true last, and the
\* second read gives "https".
C26_Witness ==
    /\ reads = 2 /\ TrustJustSet = Bool(TRUE)
    /\ req # NoReq /\ ~req.encrypted /\ req.xfproto = Str("https")
    /\ out = [field |-> "protocol", val |-> Str("https")]

\* C27: a set call that fails with a configuration error leaves the settings
\* store as it was before the call: the primary key, its compiled key and
\* the trust-default marker keep their values.
C27_FailedSetChangesNothing ==
    [][ (lastCall'.op = "set" /\ lastCall'.ret = "TypeError") =>
            /\ settings' = settings
            /\ trustProxyDefault' = trustProxyDefault
      ]_vars

-----------------------------------------------------------------------------
(* Properties of rendering (checked under SpecRender and SpecEngine) *)

\* C21 as stated: with caching enabled, the render calls for one name on
\* one application construct a View at most once.
C21_ConstructedAtMostOnce ==
    \A name \in RenderNames : built[name] # "again"

\* C21 amended: with caching enabled, once a render of a name has resolved
\* its View to a path, every later render of that name reuses the cached
\* View without constructing a View and without touching the disk, whatever
\* 'views', 'view engine' and the engine table have become, and the cached
\* entry is never replaced or removed; a render whose View resolves to no
\* path caches nothing, and the next render constructs a View again.
C21_ResolvedViewIsReused ==
    [][ \A name \in RenderNames :
          cache["app"][name] # Absent =>
            /\ cache'["app"][name] = cache["app"][name]
            /\ (rendered' # rendered /\ rendered'.name = name /\ rendered'.cacheOn) =>
                  /\ rendered'.hit /\ ~rendered'.constructed
                  /\ rendered'.stats = <<>>
                  /\ rendered'.engine = cache["app"][name].engine
      ]_vars

\* C21 witness: "user" was cached from /cwd/views with the loaded ejs
\* engine; 'views' now names other directories, the file is gone, another
\* engine is registered, and the render made last used the cached View.
C21_Witness ==
    /\ cache["app"][<<"user", "">>] # Absent
    /\ cache["app"][<<"user", "">>].root = Str("/cwd/views")
    /\ cache["app"][<<"user", "">>].engine = Fn("ejs.__express")
    /\ Get("app", "views") = Arr(<<"/shared/views", "/theme/views">>)
    /\ fsys[DirectPath("/cwd/views")] = "none"
    /\ engines["app"][".ejs"] = Fn("engineCallsBack")
    /\ rendered.name = <<"user", "">> /\ rendered.hit /\ rendered.calls = <<"null">>

\* The render call made in this step was given no cache option at all.
NoCacheOption(r) == r.opts = <<Absent, Absent, Absent>>

\* C22 as stated: while 'view cache' is disabled no render call, whatever
\* its options and locals, writes or reads the cache, and every render
\* constructs a new View.
C22_CacheOnlyBySetting ==
    [][ (rendered' # rendered /\ ~Truthy(Get("app", "view cache"))) =>
            /\ cache' = cache
            /\ ~rendered'.hit
            /\ rendered'.constructed
      ]_vars

\* C22 amended: an entry is added to the render cache only by a render call
\* whose cache option is on, and the option is the 'view cache' setting
\* when app.locals, options._locals and options give none: while the
\* setting is disabled a render call without a cache option neither writes
\* nor reads the cache and constructs a new View, and a cache write happens
\* only with the setting enabled or with a cache option given.
C22_CacheOnlyWhenOn ==
    [][ rendered' # rendered =>
          /\ (~Truthy(Get("app", "view cache")) /\ NoCacheOption(rendered')) =>
                /\ cache' = cache
                /\ ~rendered'.hit
                /\ rendered'.constructed
          /\ cache' # cache =>
                \/ Truthy(Get("app", "view cache"))
                \/ \E i \in 1..3 : Truthy(rendered'.opts[i])
      ]_vars

\* C22 witness: 'view cache' was enabled and then disabled, "user" is
\* cached, and the render made last, without a cache option, constructed a
\* View from disk and did not use the entry.
C22_Witness ==
    /\ Get("app", "view cache") = Bool(FALSE)
    /\ cache["app"][<<"user", "">>] # Absent
    /\ rendered.name = <<"user", "">> /\ NoCacheOption(rendered)
    /\ ~rendered.cacheOn /\ ~rendered.hit
    /\ rendered.constructed /\ rendered.stats # <<>>


\* The extension of the name has no registered engine, and loading a module
\* for it fails or gives no function.
EngineLoadFails(name) ==
    /\ name[2] # ""
    /\ ~Truthy(Lookup(engines, protoOf, "app", name[2]))
    /\ ~IsFunction(Require(name[2]))

\* C23: when render is called for a name whose extension has no registered
\* engine, and loading an engine for it fails or yields no function, the
\* failure is handed to the callback of render as its error and is not
\* thrown to the caller of render.
C23_LoadFailureGoesToCallback ==
    (rendered.constructed /\ EngineLoadFails(rendered.name)) =>
        /\ rendered.calls # <<>>
        /\ rendered.thrown \notin {"ModuleNotFound", "NoViewEngine"}

\* The engine called in the last render threw, and not because the callback
\* it had called threw.
EngineThrew ==
    /\ rendered.engineRuns = 1
    /\ \/ Behaviour(rendered.engine) = "throws"
       \/ Behaviour(rendered.engine) = "callsBackThenThrows" /\ ~CbThrows(rendered.cb, "null")

\* C24: an exception the engine throws synchronously during render is
\* caught and passed to the callback of render as its error; the caller of
\* render never sees it (it sees an exception only when the callback throws
\* on being handed that error).
C24_EngineExceptionGoesToCallback ==
    EngineThrew =>
        /\ rendered.calls # <<>>
        /\ rendered.calls[Len(rendered.calls)] = "EngineError"
        /\ rendered.thrown # "EngineError"
        /\ rendered.thrown # "none" => CbThrows(rendered.cb, "EngineError")

\* C24 witness: the engine threw, the callback was called with its
\* exception only, and the render call returned.
C24_Witness ==
    /\ EngineThrew
    /\ rendered.calls = <<"EngineError">>
    /\ rendered.thrown = "none"

\* C28: a render call that does not throw to its caller calls the callback
\* at most once, whatever the engine does.
C28_CallbackAtMostOnce ==
    rendered.thrown = "none" => Len(rendered.calls) <= 1


CtorErrors == {"NoDefaultEngine", "ModuleNotFound", "NoViewEngine"}

\* The last render constructed a View, and none of the paths its lookup
\* tried is a file.
NoRootYields ==
    /\ rendered.constructed
    /\ rendered.thrown \notin CtorErrors
    /\ \A i \in 1..Len(rendered.stats) : ~isFile(tryStat(rendered.stats[i]))

\* C25: when no root yields a resolved path, render calls the callback with
\* an error that names the view and every root that was tried, does not
\* call the engine and leaves the cache as it was; no cached View is
\* without a path, so a later render of the name runs the lookup again.
C25_FailedLookupIsReportedNotCached ==
    [][ /\ (rendered' # rendered /\ NoRootYields') =>
              /\ rendered'.calls = <<"LookupError">>
              /\ rendered'.err.kind = "LookupError"
              /\ rendered'.err.view = rendered'.name
              /\ \A i \in 1..Len(rendered'.stats) :
                    \E j \in 1..Len(rendered'.err.dirs) :
                        rendered'.err.dirs[j] = rendered'.stats[i][1][1]
              /\ rendered'.engineRuns = 0
              /\ cache' = cache
        /\ \A name \in RenderNames :
              cache'["app"][name] # Absent => cache'["app"][name].path # NoPath
      ]_vars

\* C25 witness: with caching on, "user" was rendered a second time while it
\* was in neither of two roots, and the lookup ran again in both.
C25_Witness ==
    /\ rendered.cacheOn /\ NoRootYields
    /\ built[rendered.name] = "again"
    /\ rendered.err.kind = "LookupError"
    /\ Len(rendered.err.dirs) = 2
    /\ Len(rendered.stats) = 4


\* C29: lookups in the own maps of an application return only what was
\* stored there by it or by an application it is mounted under: get(k) is
\* undefined for every key never set, and a render with caching on that
\* uses a cached value finds it among the entries that were stored, for
\* every key and name, those of built-in object members included.
C29_OnlyStoredValuesAreFound ==
    /\ \A a \in Apps, k \in Keys :
          (\A b \in Apps : settings[b][k] = Absent) => Get(a, k) = Undefined
    /\ rendered.hit => cache[rendered.app][rendered.name] # Absent


-----------------------------------------------------------------------------
(* Properties of the base router *)

\* C30: an application builds its base router at most once, in the first
\* call of use, route, param, all or a routing verb; the router is built
\* with the 'query parser fn', 'case sensitive routing' and 'strict
\* routing' values of that moment and is never changed afterwards, and a
\* later set of 'query parser' changes the setting and its compiled key but
\* not the parser of the router.
C30_RouterIsBuiltOnce ==
    [][ /\ \A a \in Apps :
              /\ router'[a].made <= 1
              /\ router[a].made = 1 => router'[a] = router[a]
              /\ (lastCall'.op \in RoutingOps \cup {"use"} /\ lastCall'.app = a) =>
                    router'[a].made = 1
              /\ (router[a].made = 0 /\ router'[a].made = 1) =>
                    /\ lastCall'.op \in RoutingOps \cup {"use"}
                    /\ lastCall'.app = a
                    /\ router'[a].queryParser = Get(a, "query parser fn")
                    /\ router'[a].caseSensitive = Truthy(Get(a, "case sensitive routing"))
                    /\ router'[a].strict = Truthy(Get(a, "strict routing"))
        /\ (/\ lastCall' # lastCall
            /\ lastCall'.op = "set" /\ lastCall'.arg = "query parser"
            /\ lastCall'.ret # "TypeError") =>
              /\ settings'[lastCall'.app]["query parser"] = lastCall'.val
              /\ settings'[lastCall'.app]["query parser fn"] = compileQueryParser(lastCall'.val)
              /\ router' = router
      ]_vars

\* C30 witness: the router of the application was built with strict
\* routing on, and 'query parser' was set afterwards: the setting is
\* compiled to another parser than the one the router uses.
C30_Witness ==
    /\ router["app"].made = 1
    /\ router["app"].strict
    /\ lastCall.op = "set" /\ lastCall.arg = "query parser" /\ lastCall.ret = "app"
    /\ Get("app", "query parser fn") = compileQueryParser(lastCall.val)
    /\ router["app"].queryParser # Get("app", "query parser fn")

====
